---- MODULE Spec2Model ----
(***************************************************************************)
(* A model of prepare_dataset.py: build() walks the genre list, pages the  *)
(* catalog through get_songs_by_genre() (retry loop, duration filter,      *)
(* manifest rows through save_to_csv()) and hands every returned batch to  *)
(* download_youtube_audio() (existence check, media search, download,      *)
(* conversion by convert_to_wav(), removal of the staged file).            *)
(*                                                                         *)
(* Strings that the code inspects character by character (song and artist  *)
(* names, file names) are sequences of one-character strings.  The         *)
(* catalog, the media source, the downloader and ffmpeg are external: each *)
(* call either returns or raises, chosen nondeterministically.  The local  *)
(* variables of a function exist from its call to its return.              *)
(***************************************************************************)
EXTENDS Integers, Sequences, FiniteSets, TLC

VARIABLES
    genres,              \* build(genres, ...)
    songs_per_genre,     \* build(..., songs_per_genre, ...)
    max_api_calls,       \* build(..., max_api_calls), max_calls of the fetch
    top_dir_exists,      \* dataset/top_genres exists on disk
    csv_exists,          \* CSV_FILE exists
    csv,                 \* the rows of CSV_FILE, in file order
    files,               \* the files under dataset/top_genres/<genre>/
    pc,                  \* the statement the program is at
    gi,                  \* build: index into genres of the for loop
    offset,              \* build: offset
    total_songs_fetched, \* build: total_songs_fetched
    songs,               \* build: songs, the batch returned by the fetch
    retries,             \* get_songs_by_genre: retries
    results,             \* get_songs_by_genre: results
    tracks,              \* get_songs_by_genre: tracks, the page being processed
    ti,                  \* get_songs_by_genre: position of the for loop in tracks
    di,                  \* download_youtube_audio: position of the for loop in songs
    runs,                \* how many times main() is run on the same directory
    run,                 \* which of these runs this is
    script,              \* the catalog's responses to the requests of the first run
    served,              \* requests the catalog has answered in this run (when runs > 1)
    filename,            \* sanitize_filename: filename
    sanitized,           \* sanitize_filename: the string returned
    hist                 \* observations (a record, see HistInit)

vars == <<genres, songs_per_genre, max_api_calls, top_dir_exists, csv_exists, csv,
          files, pc, gi, offset, total_songs_fetched, songs, retries,
          results, tracks, ti, di, runs, run, script, served, filename, sanitized,
          hist>>

----------------------------------------------------------------------------
(* Bounds of the model. *)

\* The longest page the catalog serves (the code asks for at most 50 items).
MaxPage == 2
\* The largest songs_per_genre (--number).
MaxTarget == 2
\* The largest max_api_calls (--max-retries).
MaxCalls == 2
\* The longest string given to sanitize_filename on its own.
MaxName == 3

(* Constants of the program. *)

\* offset += 50
OffsetStep == 50
\* 30 * 1000
MinDurationMs == 30000

\* const.py GENRES, cut to its first two entries.
GENRES == <<"country", "electronic">>

\* The header row written by save_to_csv.
Header == <<"Genre", "Song Name", "Artist Name">>

----------------------------------------------------------------------------
(* The catalog's universe: items of response['tracks']['items'].  artist   *)
(* stands for track['artists'][0]['name'].  A track is identified by its   *)
(* name and artist.                                                        *)
Tracks ==
    { [name |-> <<"/">>, artist |-> <<"x">>, duration_ms |-> 30000],
      [name |-> <<"s">>, artist |-> <<"x">>, duration_ms |-> 29999] }

Pages == UNION { [1..n -> Tracks] : n \in 0..MaxPage }

\* The characters of the model's strings.
Chars == {"a", "s", "x", "Z", "0", " ", "-", "_", "/", ".", "?"}

\* str.isalnum() on the characters the model uses.
IsAlnum(c) == c \in {"a", "s", "x", "Z", "0"}

\* sanitize_filename, as removing the other characters would have it
SanitizeFilenameRemoving(filename_) ==
    SelectSeq(filename_, LAMBDA c : IsAlnum(c) \/ c \in {" ", "-", "_"})

\* sanitize_filename(filename)
SanitizeFilename(filename_) ==
    [i \in 1..Len(filename_) |->
        IF IsAlnum(filename_[i]) \/ filename_[i] \in {" ", "-", "_"}
        THEN filename_[i] ELSE "_"]

\* sanitize_filename(f"{song_name}-{artist_name}")
SanitizedName(s) == SanitizeFilename(s.song_name \o <<"-">> \o s.artist_name)

\* genre_path / f"{sanitized_name}.wav" and .m4a
WavPath(g, s) == <<g, SanitizedName(s), "wav">>
M4aPath(g, s) == <<g, SanitizedName(s), "m4a">>

\* The dictionary appended to results.
Candidate(track) == [artist_name |-> track.artist, song_name |-> track.name]

\* The row save_to_csv writes for a candidate.
Row(g, s) == <<g, s.song_name, s.artist_name>>

\* save_to_csv, as a header written by every call would have it
SaveToCsvHeaderEachTime(exists, rows, g, s) == rows \o <<Header, Row(g, s)>>

\* save_to_csv(file_path, genre, song_name, artist_name): the file afterwards.
SaveToCsv(exists, rows, g, s) ==
    IF exists THEN Append(rows, Row(g, s))
    ELSE <<Header, Row(g, s)>>

\* the duration test, as a floor that excludes 30 seconds would have it
TooShortInclusive(track) == track.duration_ms <= MinDurationMs

\* The duration test of get_songs_by_genre: TRUE when the track is skipped.
TooShort(track) == track.duration_ms < MinDurationMs

genre == genres[gi]
song == songs[di]

----------------------------------------------------------------------------
(* Observations: they record what happened and decide nothing.             *)
HistInit ==
    [ requests |-> 0,      \* sp.search calls of the current fetch
      raised   |-> 0,      \* those that raised
      pageOk   |-> 0,      \* pages of the current fetch processed without error
      items    |-> 0,      \* items of the page the current fetch got last
      resMark  |-> 0,      \* Len(results) when the current attempt began
      csvMark  |-> 0,      \* Len(csv) when the current fetch began
      fetches  |-> <<>>,   \* <<genre index, offset>> of every fetch of the run
      begun    |-> <<>>,   \* <<genre, offset, total>> at the start of each genre
      handled  |-> <<>>,   \* positions in songs the current download call has begun
      steps    |-> <<>>,   \* steps taken for the song at the last of these positions
      converted |-> FALSE, \* convert_to_wav wrote the output of that song
      batches  |-> 0,      \* songs returned by the fetches of the current genre
      snapshot |-> {},     \* the files when a later run began
      csvStart |-> 0,      \* Len(csv) when a later run began
      media    |-> {} ]    \* final paths searched for or downloaded in a later run

Begin == [hist EXCEPT !.handled = Append(@, di), !.steps = <<>>, !.converted = FALSE]

Log(step) ==
    [hist EXCEPT !.steps = Append(@, step),
                 !.media = IF run > 1 /\ step \in {"search", "download"}
                           THEN @ \cup {WavPath(genre, song)} ELSE @]

\* The observations of a fetch end when build has used what it returned.
FetchOver(h) == [h EXCEPT !.requests = 0, !.raised = 0, !.pageOk = 0, !.items = 0,
                          !.resMark = 0, !.csvMark = 0]

----------------------------------------------------------------------------
(* The catalog.  In a first run it answers a request in any way; its       *)
(* answers are written to script when a second run is to follow, and the   *)
(* second run gets the same answers to the same requests.                  *)
Raise == [kind |-> "raise", items |-> <<>>, bad |-> 0]
Page(items) == [kind |-> "page", items |-> items, bad |-> 0]

Recording == run < runs
Replaying == run > 1 /\ served < Len(script)
ReplayingPage == run > 1 /\ served >= 1 /\ served <= Len(script)

\* The catalog may answer the next request with r.
Answers(r) ==
    Replaying => /\ script[served + 1].kind = r.kind
                 /\ script[served + 1].items = r.items

\* The item at position i of the page being processed is malformed.
MayBeMalformed(i) == ReplayingPage => script[served].bad = i
MayBeWellFormed(i) == ReplayingPage => script[served].bad # i

Answered(r) ==
    /\ script' = IF Recording THEN Append(script, r) ELSE script
    /\ served' = IF runs > 1 THEN served + 1 ELSE served

FoundMalformed(i) ==
    /\ script' = IF Recording THEN [script EXCEPT ![Len(script)].bad = i] ELSE script
    /\ served' = served

----------------------------------------------------------------------------
TypeOK ==
    /\ songs_per_genre \in 0..MaxTarget
    /\ max_api_calls \in 0..MaxCalls
    /\ top_dir_exists \in BOOLEAN
    /\ csv_exists \in BOOLEAN
    /\ pc \in {"genre", "while", "retry", "tracks", "got", "dl", "search",
               "download", "convert", "unlink", "done", "sanitize", "sanitized"}
    /\ gi \in 1..(Len(genres) + 1)
    /\ retries \in 0..max_api_calls
    /\ run \in 1..runs

\* main(): build(GENRES, args.number, args.max_retries).  Nothing creates
\* dataset/top_genres before build: it exists or not.
InitWith(gs, n, dirs, numbers, max_retries) ==
    /\ genres = gs
    /\ songs_per_genre \in numbers
    /\ max_api_calls \in max_retries
    /\ top_dir_exists \in dirs
    /\ csv_exists = FALSE
    /\ csv = <<>>
    /\ files = {}
    /\ pc = "genre"
    /\ gi = 1
    /\ offset = 0
    /\ total_songs_fetched = 0
    /\ songs = <<>>
    /\ retries = 0
    /\ results = <<>>
    /\ tracks = <<>>
    /\ ti = 1
    /\ di = 1
    /\ runs = n
    /\ run = 1
    /\ script = <<>>
    /\ served = 0
    /\ filename = <<>>
    /\ sanitized = <<>>
    /\ hist = HistInit

Init == InitWith(GENRES, 1, BOOLEAN, 0..MaxTarget, 0..MaxCalls)

----------------------------------------------------------------------------
(* build *)

buildVars == <<gi, offset, total_songs_fetched, songs>>
fetchVars == <<retries, results, tracks, ti>>
diskVars == <<top_dir_exists, csv_exists, csv, files>>
argVars == <<genres, songs_per_genre, max_api_calls, runs, run>>
sanVars == <<filename, sanitized>>
catVars == <<script, served>>

\* for genre in genres: offset = 0; total_songs_fetched = 0
NextGenre ==
    /\ pc = "genre"
    /\ gi <= Len(genres)
    /\ offset' = 0
    /\ total_songs_fetched' = 0
    /\ pc' = "while"
    /\ hist' = [hist EXCEPT !.begun = Append(@, <<genres[gi], offset', total_songs_fetched'>>),
                            !.batches = 0]
    /\ UNCHANGED <<sanVars, argVars, diskVars, catVars, gi, songs, fetchVars, di>>

\* the for loop is exhausted: build returns
BuildReturns ==
    /\ pc = "genre"
    /\ gi > Len(genres)
    /\ pc' = "done"
    /\ UNCHANGED <<sanVars, argVars, diskVars, catVars, buildVars, fetchVars, di, hist>>

\* the condition of the while loop of build, as a fetch too many would have it
WhileConditionInclusive == total_songs_fetched <= songs_per_genre

\* while total_songs_fetched < songs_per_genre
WhileCondition == total_songs_fetched < songs_per_genre

\* songs = get_songs_by_genre(genre, offset, max_api_calls)
\* (the call: results = [], retries = 0)
CallGetSongs ==
    /\ pc = "while"
    /\ WhileCondition
    /\ results' = <<>>
    /\ retries' = 0
    /\ pc' = "retry"
    /\ hist' = [FetchOver(hist) EXCEPT !.csvMark = Len(csv),
                                       !.fetches = Append(@, <<gi, offset>>)]
    /\ UNCHANGED <<sanVars, argVars, diskVars, catVars, buildVars, tracks, ti, di>>

\* the while condition is false: the genre is finished
TargetReached ==
    /\ pc = "while"
    /\ ~WhileCondition
    /\ gi' = gi + 1
    /\ pc' = "genre"
    /\ UNCHANGED <<sanVars, argVars, diskVars, catVars, offset, total_songs_fetched, songs,
                   fetchVars, di, hist>>

\* if not songs: break, as a break out of the for loop over genres would have it
NoSongsStopsBuild ==
    /\ pc = "got"
    /\ songs = <<>>
    /\ gi' = Len(genres) + 1
    /\ pc' = "genre"
    /\ hist' = FetchOver(hist)
    /\ UNCHANGED <<sanVars, argVars, diskVars, catVars, offset, total_songs_fetched, songs,
                   fetchVars, di>>

\* if not songs: break
NoSongs ==
    /\ pc = "got"
    /\ songs = <<>>
    /\ gi' = gi + 1
    /\ pc' = "genre"
    /\ hist' = FetchOver(hist)
    /\ UNCHANGED <<sanVars, argVars, diskVars, catVars, offset, total_songs_fetched, songs,
                   fetchVars, di>>

\* download_youtube_audio(songs, genre): genre_path.mkdir(parents=True, exist_ok=True)
CallDownload ==
    /\ pc = "got"
    /\ songs # <<>>
    /\ top_dir_exists' = TRUE
    /\ di' = 1
    /\ pc' = "dl"
    /\ hist' = [hist EXCEPT !.handled = <<>>, !.steps = <<>>, !.converted = FALSE]
    /\ UNCHANGED <<sanVars, argVars, csv_exists, csv, files, catVars, buildVars, fetchVars>>

----------------------------------------------------------------------------
(* get_songs_by_genre *)

ExceptKeepsCount(h) ==
    /\ retries' = retries
    /\ pc' = "retry"
    /\ hist' = h

\* the except clause: retries += 1
Except(h) ==
    /\ retries' = retries + 1
    /\ pc' = "retry"
    /\ hist' = h

\* the condition of the retry loop, as one attempt too many would have it
MayRequestOnceMore == pc = "retry" /\ retries <= max_api_calls

\* while retries < max_calls
MayRequest == pc = "retry" /\ retries < max_api_calls

\* return results: back in build with songs bound; the locals are gone
Return(h) ==
    /\ songs' = results
    /\ results' = <<>>
    /\ retries' = 0
    /\ tracks' = <<>>
    /\ ti' = 1
    /\ pc' = "got"
    /\ hist' = [h EXCEPT !.batches = @ + Len(results)]

\* sp.search raises
SearchRaises ==
    /\ MayRequest
    /\ Answers(Raise)
    /\ Answered(Raise)
    /\ Except([hist EXCEPT !.requests = @ + 1, !.raised = @ + 1])
    /\ UNCHANGED <<sanVars, argVars, diskVars, buildVars, results, tracks, ti, di>>

\* sp.search returns no items: return results
SearchEmpty ==
    /\ MayRequest
    /\ Answers(Page(<<>>))
    /\ Answered(Page(<<>>))
    /\ Return([hist EXCEPT !.requests = @ + 1, !.pageOk = @ + 1, !.items = 0,
                           !.resMark = Len(results)])
    /\ UNCHANGED <<sanVars, argVars, diskVars, gi, offset, total_songs_fetched, di>>

\* sp.search returns items: for track in tracks
SearchPage ==
    /\ MayRequest
    /\ \E page \in Pages \ {<<>>} :
          /\ Answers(Page(page))
          /\ Answered(Page(page))
          /\ tracks' = page
          /\ hist' = [hist EXCEPT !.requests = @ + 1, !.items = Len(page),
                                  !.resMark = Len(results)]
    /\ ti' = 1
    /\ pc' = "tracks"
    /\ UNCHANGED <<sanVars, argVars, diskVars, buildVars, retries, results, di>>

\* the loop falls out of while retries < max_calls: return results
MaxRetriesReached ==
    /\ pc = "retry"
    /\ ~(retries < max_api_calls)
    /\ Return(hist)
    /\ UNCHANGED <<sanVars, argVars, diskVars, catVars, gi, offset, total_songs_fetched, di>>

InPage == pc = "tracks" /\ ti <= Len(tracks)

\* an item lacks duration_ms, name or artists: the lookup raises
TrackMalformed ==
    /\ InPage
    /\ MayBeMalformed(ti)
    /\ FoundMalformed(ti)
    /\ Except(hist)
    /\ UNCHANGED <<sanVars, argVars, diskVars, buildVars, results, tracks, ti, di>>

\* if track['duration_ms'] < 30 * 1000: continue
TrackSkipped ==
    /\ InPage
    /\ MayBeWellFormed(ti)
    /\ TooShort(tracks[ti])
    /\ ti' = ti + 1
    /\ UNCHANGED <<sanVars, argVars, diskVars, catVars, buildVars, retries, results, tracks,
                   di, pc, hist>>

\* results.append(...); save_to_csv(...)
TrackKept ==
    /\ InPage
    /\ MayBeWellFormed(ti)
    /\ ~TooShort(tracks[ti])
    /\ results' = Append(results, Candidate(tracks[ti]))
    /\ IF top_dir_exists
       THEN /\ csv' = SaveToCsv(csv_exists, csv, genre, Candidate(tracks[ti]))
            /\ csv_exists' = TRUE
            /\ ti' = ti + 1
            /\ UNCHANGED <<retries, pc, hist>>
       ELSE \* file_path.open raises: the directory of CSV_FILE is missing
            /\ Except(hist)
            /\ UNCHANGED <<csv, csv_exists, ti>>
    /\ UNCHANGED <<sanVars, argVars, top_dir_exists, files, catVars, buildVars, tracks, di>>

\* the for loop over tracks ends: return results
PageDone ==
    /\ pc = "tracks"
    /\ ti > Len(tracks)
    /\ Return([hist EXCEPT !.pageOk = @ + 1])
    /\ UNCHANGED <<sanVars, argVars, diskVars, catVars, gi, offset, total_songs_fetched, di>>

----------------------------------------------------------------------------
(* download_youtube_audio *)

\* the for loop over songs, as trying the same song again would have it
NextSongAgain ==
    /\ di' = di
    /\ pc' = "dl"

\* continue, or the except clause: on to the next song
NextSong ==
    /\ di' = di + 1
    /\ pc' = "dl"

\* offset += 50, as a forgotten increment would have it
NextOffsetStuck(o) == o

\* offset += 50
NextOffset(o) == o + OffsetStep

\* the existence check, as a check of the staged file would have it
StagedExists == M4aPath(genre, song) \in files

\* wav_file_path.exists()
WavExists == WavPath(genre, song) \in files

NextTotalDownloaded(total) ==
    total + Cardinality({i \in DOMAIN songs : WavPath(genre, songs[i]) \in files})

\* total_songs_fetched += len(songs)
NextTotal(total) == total + Len(songs)

\* the for loop over songs ends; back in build:
\* total_songs_fetched += len(songs); offset += 50
DownloadReturns ==
    /\ pc = "dl"
    /\ di > Len(songs)
    /\ total_songs_fetched' = NextTotal(total_songs_fetched)
    /\ offset' = NextOffset(offset)
    /\ di' = 1
    /\ pc' = "while"
    /\ hist' = [FetchOver(hist) EXCEPT !.handled = <<>>, !.steps = <<>>, !.converted = FALSE]
    /\ UNCHANGED <<sanVars, argVars, diskVars, catVars, gi, songs, fetchVars>>

\* if wav_file_path.exists(): continue
SongExists ==
    /\ pc = "dl"
    /\ di <= Len(songs)
    /\ WavExists
    /\ NextSong
    /\ hist' = Begin
    /\ UNCHANGED <<sanVars, argVars, diskVars, catVars, buildVars, fetchVars>>

\* the file does not exist: enter the try block
SongBegins ==
    /\ pc = "dl"
    /\ di <= Len(songs)
    /\ ~WavExists
    /\ pc' = "search"
    /\ hist' = Begin
    /\ UNCHANGED <<sanVars, argVars, diskVars, catVars, buildVars, fetchVars, di>>

\* Search(query).videos is empty (continue), or the search or
\* yt.streams.get_audio_only() raises
SearchFails ==
    /\ pc = "search"
    /\ NextSong
    /\ hist' = Log("search")
    /\ UNCHANGED <<sanVars, argVars, diskVars, catVars, buildVars, fetchVars>>

\* videos[0] and its audio stream are found
SearchFinds ==
    /\ pc = "search"
    /\ pc' = "download"
    /\ hist' = Log("search")
    /\ UNCHANGED <<sanVars, argVars, diskVars, catVars, buildVars, fetchVars, di>>

DownloadFailsGoesOn ==
    /\ pc = "download"
    /\ pc' = "convert"
    /\ hist' = Log("download")
    /\ UNCHANGED <<sanVars, argVars, diskVars, catVars, buildVars, fetchVars, di>>

\* audio_stream.download raises (and leaves no file behind)
DownloadFails ==
    /\ pc = "download"
    /\ NextSong
    /\ hist' = Log("download")
    /\ UNCHANGED <<sanVars, argVars, diskVars, catVars, buildVars, fetchVars>>

\* audio_stream.download writes the .m4a file
DownloadWrites ==
    /\ pc = "download"
    /\ files' = files \cup {M4aPath(genre, song)}
    /\ pc' = "convert"
    /\ hist' = Log("download")
    /\ UNCHANGED <<sanVars, argVars, top_dir_exists, csv_exists, csv, catVars, buildVars,
                   fetchVars, di>>

\* convert_to_wav(input_path, output_path): the files afterwards.  ffmpeg writes
\* the output, or fails and writes none; convert_to_wav swallows the failure.
ConvertToWav(fs, output_path, ok) == IF ok THEN fs \cup {output_path} ELSE fs

\* convert_to_wav(temp_file_path, wav_file_path)
Convert ==
    /\ pc = "convert"
    /\ \E ok \in BOOLEAN :
          /\ files' = ConvertToWav(files, WavPath(genre, song), ok)
          /\ hist' = [Log("transcode") EXCEPT !.converted = ok]
    /\ pc' = "unlink"
    /\ UNCHANGED <<sanVars, argVars, top_dir_exists, csv_exists, csv, catVars, buildVars,
                   fetchVars, di>>

UnlinkKeeps ==
    /\ pc = "unlink"
    /\ files' = files
    /\ NextSong
    /\ hist' = Log("unlink")
    /\ UNCHANGED <<sanVars, argVars, top_dir_exists, csv_exists, csv, catVars, buildVars,
                   fetchVars>>

\* temp_file_path.unlink(missing_ok=True)
Unlink ==
    /\ pc = "unlink"
    /\ files' = files \ {M4aPath(genre, song)}
    /\ NextSong
    /\ hist' = Log("unlink")
    /\ UNCHANGED <<sanVars, argVars, top_dir_exists, csv_exists, csv, catVars, buildVars,
                   fetchVars>>

----------------------------------------------------------------------------
Next ==
    \/ NextGenre \/ BuildReturns \/ CallGetSongs \/ TargetReached
    \/ NoSongs \/ CallDownload
    \/ SearchRaises \/ SearchEmpty \/ SearchPage \/ MaxRetriesReached
    \/ TrackMalformed \/ TrackSkipped \/ TrackKept \/ PageDone
    \/ DownloadReturns \/ SongExists \/ SongBegins
    \/ SearchFails \/ SearchFinds \/ DownloadFails \/ DownloadWrites
    \/ Convert \/ Unlink

Spec == Init /\ [][Next]_vars

----------------------------------------------------------------------------
(* main() run again on the directory the first run left, the catalog       *)
(* answering as it did.                                                    *)
RunAgain ==
    /\ pc = "done"
    /\ run < runs
    /\ run' = run + 1
    /\ served' = 0
    /\ pc' = "genre"
    /\ gi' = 1
    /\ offset' = 0
    /\ total_songs_fetched' = 0
    /\ songs' = <<>>
    /\ hist' = [HistInit EXCEPT !.snapshot = files, !.csvStart = Len(csv)]
    /\ UNCHANGED <<sanVars, genres, songs_per_genre, max_api_calls, runs, diskVars,
                   script, fetchVars, di>>

InitRerun == InitWith(SubSeq(GENRES, 1, 1), 2, {TRUE}, 1..MaxTarget, {1})

NextRerun == Next \/ RunAgain

SpecRerun == InitRerun /\ [][NextRerun]_vars

\* The same program, with at most one attempt per fetch, under the scheduling of
\* a single thread that keeps running: a step that can be taken is taken.
InitFair == InitWith(GENRES, 1, BOOLEAN, 0..MaxTarget, {0, 1})

FairSpec == InitFair /\ [][Next]_vars /\ WF_vars(Next)

\* The same scheduling for the build of one genre, with every target and every
\* number of attempts.
InitOneGenre == InitWith(SubSeq(GENRES, 1, 1), 1, BOOLEAN, 0..MaxTarget, 0..MaxCalls)

FairSpecOneGenre == InitOneGenre /\ [][Next]_vars /\ WF_vars(Next)

----------------------------------------------------------------------------
(* sanitize_filename on its own: called on any string of at most MaxName   *)
(* characters.                                                             *)
Strings(n) == UNION { [1..k -> Chars] : k \in 0..n }

InitSanitize ==
    /\ filename \in Strings(MaxName)
    /\ sanitized = <<>>
    /\ pc = "sanitize"
    /\ genres = <<>>
    /\ songs_per_genre = 0
    /\ max_api_calls = 0
    /\ top_dir_exists = FALSE
    /\ csv_exists = FALSE
    /\ csv = <<>>
    /\ files = {}
    /\ gi = 1
    /\ offset = 0
    /\ total_songs_fetched = 0
    /\ songs = <<>>
    /\ retries = 0
    /\ results = <<>>
    /\ tracks = <<>>
    /\ ti = 1
    /\ di = 1
    /\ runs = 1
    /\ run = 1
    /\ script = <<>>
    /\ served = 0
    /\ hist = HistInit

\* return "".join(c if c.isalnum() or c in " -_" else "_" for c in filename)
Sanitize ==
    /\ pc = "sanitize"
    /\ sanitized' = SanitizeFilename(filename)
    /\ pc' = "sanitized"
    /\ UNCHANGED <<filename, argVars, diskVars, catVars, buildVars, fetchVars, di, hist>>

SpecSanitize == InitSanitize /\ [][Sanitize]_vars

----------------------------------------------------------------------------
(* The claims. *)

InFetch == pc \in {"retry", "tracks"}
InDownload == pc \in {"dl", "search", "download", "convert", "unlink"}
InMedia == pc \in {"search", "download", "convert", "unlink"}

IsPrefix(a, b) == Len(a) <= Len(b) /\ SubSeq(b, 1, Len(a)) = a
Count(seq, x) == Cardinality({i \in DOMAIN seq : seq[i] = x})
Since(seq, mark) == SubSeq(seq, mark + 1, Len(seq))

\* C1: one call of get_songs_by_genre issues at most max_calls catalog requests,
\* and none once a page has been processed without error (at most one page is,
\* and the call has then returned); when every request it made raised, it made
\* exactly max_calls requests and returns the empty list.
C1_RetryBound ==
    /\ hist.requests <= max_api_calls
    /\ hist.pageOk <= 1
    /\ hist.pageOk = 1 => ~InFetch
    /\ (pc = "got" /\ hist.raised = hist.requests) =>
          (hist.requests = max_api_calls /\ songs = <<>>)

\* A fetch whose two requests both raised has returned the empty list.
C1_Witness ==
    /\ pc = "got"
    /\ max_api_calls >= 2
    /\ hist.raised = max_api_calls
    /\ hist.requests = max_api_calls
    /\ songs = <<>>

RowSong(k) == [artist_name |-> csv[k][3], song_name |-> csv[k][2]]

\* The first run left the final artifact of every candidate it fetched.
FirstRunComplete ==
    \A k \in 1..hist.csvStart :
        csv[k] # Header => <<csv[k][1], SanitizedName(RowSong(k)), "wav">> \in hist.snapshot

C3_Pagination ==
    \A k \in DOMAIN hist.fetches :
        hist.fetches[k][2] =
            50 * Cardinality({j \in 1..(k - 1) : hist.fetches[j][1] = hist.fetches[k][1]})

\* A genre has been fetched at offset 0 and then at offset 50.
C3_Witness ==
    \E k \in DOMAIN hist.fetches : hist.fetches[k][2] = 50

\* C4: build leaves a genre in exactly two cases, the fetched count at the top of
\* the while loop is >= the target, or the fetch returned an empty batch; and it
\* calls the fetch only while the fetched count is below the target.
C4_Done ==
    [][ /\ (gi' = gi + 1) <=>
              \/ pc = "while" /\ total_songs_fetched >= songs_per_genre
              \/ pc = "got" /\ songs = <<>>
        /\ (pc = "while" /\ pc' = "retry") => total_songs_fetched < songs_per_genre
      ]_vars

\* The first genre was left with its target reached by a batch.
C4_Witness ==
    /\ pc = "genre"
    /\ gi = 2
    /\ songs_per_genre > 0
    /\ total_songs_fetched >= songs_per_genre
    /\ songs # <<>>

\* The track a candidate or a manifest row names lasts less than 30 seconds.
ShortNamed(song_name, artist_name) ==
    \E t \in Tracks : /\ t.name = song_name
                      /\ t.artist = artist_name
                      /\ t.duration_ms < 30000

\* The candidates of the items of a page that last 30 seconds or more, in order.
Surviving(page) ==
    LET kept == SelectSeq(page, LAMBDA t : t.duration_ms >= 30000)
    IN  [i \in 1..Len(kept) |-> [artist_name |-> kept[i].artist, song_name |-> kept[i].name]]

\* C5: no track shorter than 30000 ms is in the batch being built, in a returned
\* batch or in a manifest row; and when a page has been processed without error,
\* what the attempt added to the batch is the page's tracks of 30000 ms or more.
C5_DurationFilter ==
    /\ \A i \in DOMAIN results : ~ShortNamed(results[i].song_name, results[i].artist_name)
    /\ \A i \in DOMAIN songs : ~ShortNamed(songs[i].song_name, songs[i].artist_name)
    /\ \A k \in DOMAIN csv : csv[k] # Header => ~ShortNamed(csv[k][2], csv[k][3])
    /\ (pc = "tracks" /\ ti > Len(tracks)) =>
          Since(results, hist.resMark) = Surviving(tracks)

\* A page holding a short track and a track of exactly 30000 ms has been processed.
C5_Witness ==
    /\ pc = "tracks"
    /\ ti > Len(tracks)
    /\ \E i \in DOMAIN tracks : tracks[i].duration_ms < 30000
    /\ \E i \in DOMAIN tracks : tracks[i].duration_ms = 30000
    /\ Len(results) = 1

\* C6: within one call of download_youtube_audio the positions of the batch are
\* begun once each, in order, whatever failed before; for the song being handled
\* there is at most one media search, one download and one transcode; and when
\* the call ends every position has been begun.
C6_OnePassPerSong ==
    InDownload =>
        /\ \A i \in DOMAIN hist.handled : hist.handled[i] = i
        /\ Len(hist.handled) = (IF pc = "dl" THEN di - 1 ELSE di)
        /\ \A step \in {"search", "download", "transcode"} : Count(hist.steps, step) <= 1
        /\ (pc = "dl" /\ di > Len(songs)) => Len(hist.handled) = Len(songs)

\* The first song of a batch failed (no final artifact exists) and the second
\* song is being searched for.
C6_Witness ==
    /\ pc = "search"
    /\ di = 2
    /\ files = {}
    /\ hist.handled = <<1, 2>>

\* C7: when the final artifact of the song at the head of the loop exists, the
\* step taken goes on to the next song with no search, download or transcode,
\* and leaves the files and the manifest as they were.
C7_SkipExisting ==
    [][ (pc = "dl" /\ di <= Len(songs) /\ WavPath(genre, song) \in files) =>
            /\ pc' = "dl"
            /\ di' = di + 1
            /\ hist'.steps = <<>>
            /\ files' = files
            /\ csv' = csv
            /\ csv_exists' = csv_exists
      ]_vars

\* A song whose final artifact existed has just been skipped.
C7_Witness ==
    /\ pc = "dl"
    /\ di > 1
    /\ hist.handled # <<>>
    /\ hist.steps = <<>>
    /\ WavPath(genre, songs[di - 1]) \in files

\* C8: a step never removes or changes a manifest row and never removes the
\* manifest; the step that creates the manifest writes the header as its first
\* row, once, and no other step writes a header.
C8_AppendOnly ==
    [][ /\ IsPrefix(csv, csv')
        /\ csv_exists => csv_exists'
        /\ IF ~csv_exists /\ csv_exists'
           THEN csv'[1] = Header /\ Count(csv', Header) = 1
           ELSE Count(Since(csv', Len(csv)), Header) = 0
      ]_vars

\* The manifest holds its header and the rows of two calls of save_to_csv.
C8_Witness ==
    /\ csv_exists
    /\ Len(csv) = 3
    /\ csv[1] = Header
    /\ Count(csv, Header) = 1

\* C9 as stated: when a media search, download or transcode is under way for a
\* batch, the rows the fetch of that batch wrote are the rows of its candidates,
\* in order.
C9_RowsBeforeMedia ==
    InMedia =>
        SelectSeq(Since(csv, hist.csvMark), LAMBDA r : r # Header)
            = [i \in DOMAIN songs |-> <<genre, songs[i].song_name, songs[i].artist_name>>]

\* The genres begun so far are the first genres of the list, in list order, each
\* begun at offset 0 with fetched count 0.
BegunInOrder ==
    /\ Len(hist.begun) = (IF pc = "genre" THEN gi - 1 ELSE IF pc = "done" THEN Len(genres) ELSE gi)
    /\ Len(hist.begun) <= Len(genres)
    /\ \A k \in DOMAIN hist.begun : hist.begun[k] = <<genres[k], 0, 0>>

\* C10: the genres are begun one after the other in list order, each at offset 0
\* with fetched count 0, whatever ended the genres before; and build ends having
\* begun every genre of the list.
C10_EveryGenre ==
    /\ []BegunInOrder
    /\ <>(pc = "done" /\ Len(hist.begun) = Len(genres))

\* The first genre ended on an empty batch and the second genre is being fetched.
C10_Witness ==
    /\ gi = 2
    /\ pc = "retry"
    /\ songs = <<>>
    /\ hist.fetches = <<<<1, 0>>, <<2, 0>>>>

\* The characters a sanitized name may hold: letters and digits, space, hyphen
\* and underscore.
SafeChars == {"a", "s", "x", "Z", "0", " ", "-", "_"}

C12_EmptyMeansExhausted ==
    (pc = "got" /\ songs = <<>>) =>
        \/ hist.pageOk = 1 /\ hist.items = 0
        \/ hist.pageOk = 0 /\ hist.requests = max_api_calls

\* The song the download call handled last, and its two files.
Handled == songs[hist.handled[Len(hist.handled)]]
Transcoded == pc = "dl" /\ hist.handled # <<>> /\ Count(hist.steps, "transcode") > 0

\* C13: when the handling of a candidate for which the transcoder was invoked
\* has ended, its staged .m4a file does not exist, whether the conversion
\* succeeded or failed; after a failed conversion the final .wav file does
\* not exist either.
C13_StagedRemoved ==
    Transcoded =>
        /\ M4aPath(genre, Handled) \notin files
        /\ ~hist.converted => WavPath(genre, Handled) \notin files

\* The handling of a candidate has ended after a failed conversion.
C13_Witness ==
    /\ Transcoded
    /\ ~hist.converted
    /\ hist.steps = <<"search", "download", "transcode", "unlink">>
    /\ files = {}

\* The batch build holds and has not yet counted.
Uncounted == IF pc = "got" \/ InDownload THEN Len(songs) ELSE 0

RowsOf(g, batch) == [i \in DOMAIN batch |-> <<g, batch[i].song_name, batch[i].artist_name>>]

\* C15 as stated, for a call whose output directory exists: when the call has
\* processed a page without error, the batch it is about to return holds one
\* entry, and the manifest got one row from this call, for each track of that
\* page lasting 30000 ms or more, also after failed attempts; and the batch
\* holds at most 50 candidates.
C15_OneRowPerTrack ==
    (top_dir_exists /\ pc = "tracks" /\ ti > Len(tracks)) =>
        /\ results = Surviving(tracks)
        /\ SelectSeq(Since(csv, hist.csvMark), LAMBDA r : r # Header)
               = RowsOf(genre, Surviving(tracks))
        /\ Len(results) <= 50

MediaSteps == <<"search", "download", "transcode", "unlink">>
Wavs(fs) == {f \in fs : f[3] = "wav"}

\* A step of the handling of a song is taken.
Steps == hist'.steps # hist.steps /\ hist'.steps # <<>>

\* C16: the steps taken for a candidate are the first steps of search, download,
\* transcode, staged-file removal, in that order; the transcoder is invoked only
\* when the search and the download of that candidate have been done and the
\* download left its staged file; a final artifact appears only in a transcode
\* step and is the current candidate's; every step belongs to the candidate
\* begun last, and a candidate is begun only when the one before it is finished
\* or abandoned.
C16_StepOrder ==
    /\ [](IsPrefix(hist.steps, MediaSteps))
    /\ [][  /\ Count(hist'.steps, "transcode") > Count(hist.steps, "transcode") =>
                /\ hist.steps = <<"search", "download">>
                /\ M4aPath(genre, song) \in files
            /\ Wavs(files') # Wavs(files) =>
                /\ hist'.steps = <<"search", "download", "transcode">>
                /\ Wavs(files') = Wavs(files) \cup {WavPath(genre, song)}
            /\ Steps =>
                /\ hist'.handled = hist.handled
                /\ hist.handled[Len(hist.handled)] = di
                /\ hist'.steps = Append(hist.steps, MediaSteps[Len(hist.steps) + 1])
            /\ hist'.handled # hist.handled /\ hist'.handled # <<>> =>
                /\ pc = "dl"
                /\ hist.steps # <<"search", "download", "transcode">>
                /\ hist'.steps = <<>>
       ]_vars

\* The second candidate of a batch has been transcoded after the first was
\* left without a final artifact.
C16_Witness ==
    /\ pc = "unlink"
    /\ di = 2
    /\ hist.handled = <<1, 2>>
    /\ hist.steps = <<"search", "download", "transcode">>
    /\ Wavs(files) = {WavPath(genre, song)}

\* The positions of the manifest rows of genre g.
RowsOfGenre(g) == {k \in DOMAIN csv : csv[k] # Header /\ csv[k][1] = g}

\* C17 as stated: in a run begun with no file in the output tree and no
\* manifest, the final artifacts of a genre are never more than the manifest
\* rows of that genre, and each final artifact has the sanitized title - artist
\* of a manifest row of its genre, which was written before it.
C17_ArtifactsHaveRows ==
    /\ \A i \in DOMAIN genres :
          Cardinality({f \in Wavs(files) : f[1] = genres[i]})
              <= Cardinality(RowsOfGenre(genres[i]))
    /\ \A f \in Wavs(files) :
          \E k \in RowsOfGenre(f[1]) : SanitizedName(RowSong(k)) = f[2]

\* C18: under the scheduling of a running thread build ends, whatever the
\* catalog, the media source and the codec answer.  The retry loop counts every
\* failed attempt, never counts more than max_calls and returns when it has
\* counted max_calls; the pagination loop goes round only on a batch that is
\* not empty, which raises the fetched count by at least one, and an empty
\* batch ends it.
C18_Terminates ==
    /\ <>(pc = "done")
    /\ [](retries <= max_api_calls)
    /\ [][  /\ (InFetch /\ pc' = "retry") => retries' = retries + 1
            /\ (pc = "retry" /\ retries >= max_api_calls) => pc' = "got"
            /\ (pc = "dl" /\ pc' = "while") =>
                  /\ songs # <<>>
                  /\ total_songs_fetched' >= total_songs_fetched + 1
            /\ (pc = "got" /\ songs = <<>>) => pc' = "genre"
       ]_vars

\* Build has ended after a second round of the pagination loop in which every
\* attempt failed.
C18_Witness ==
    /\ pc = "done"
    /\ Len(hist.fetches) = 2
    /\ total_songs_fetched = 1
    /\ max_api_calls = MaxCalls
    /\ songs = <<>>

====
